---- MODULE Spec2Model ----
(***************************************************************************)
(* A model of epub.py: the text segmenter (read_txt_file), the asset       *)
(* collector (add_images), the packager (generate_epub and the _create_*   *)
(* steps it runs) and the batch driver (process_all_txt_files).            *)
(*                                                                         *)
(* Text is modelled as Python models it: a string is a sequence of code    *)
(* points, so split, strip, the regular expressions, lower() and the sort  *)
(* of file names are computed on the characters.                           *)
(***************************************************************************)
EXTENDS Integers, Sequences, FiniteSets, TLC

(* ------------------------------------------------------------------ *)
(* Bounds of the model                                                 *)
(* ------------------------------------------------------------------ *)
\* number of lines after the title line in the texts of SpecSeg
MaxLines == 3
\* number of entries of the image folder in SpecImg
MaxListing == 4
\* number of text files the batch driver finds in SpecBatch
MaxTxt == 3

(* ------------------------------------------------------------------ *)
(* Characters the source names                                         *)
(* ------------------------------------------------------------------ *)
NL == 10
DOT == 46
LT == 60
GT == 62
CH_DI == 31532
CH_ZHANG == 31456
CH_LBRACKET == 12304
CH_RBRACKET == 12305

\* 一二三四五六七八九十百千万
ChineseNumerals ==
    {19968, 20108, 19977, 22235, 20116, 20845, 19971, 20843, 20061,
     21313, 30334, 21315, 19975}
\* "Chapter"
ChapterWord == <<67, 104, 97, 112, 116, 101, 114>>
\* "未命名小说", the title a fresh generator carries
DefaultTitle == <<26410, 21629, 21517, 23567, 35828>>
\* "前言", the title of the text before the first marker
Preface == <<21069, 35328>>
\* "cover" and "封面"
CoverWord == <<99, 111, 118, 101, 114>>
CoverWordZh == <<23553, 38754>>
\* '.jpg', '.jpeg', '.png', '.gif', '.bmp', '.webp'
supported_formats ==
    { <<46, 106, 112, 103>>, <<46, 106, 112, 101, 103>>, <<46, 112, 110, 103>>,
      <<46, 103, 105, 102>>, <<46, 98, 109, 112>>, <<46, 119, 101, 98, 112>> }

(* ------------------------------------------------------------------ *)
(* Python's str operations                                             *)
(* ------------------------------------------------------------------ *)
\* str.isspace() of one character, the set str.strip() removes and \s matches
IsSpace(c) == c \in {9, 10, 11, 12, 13, 28, 29, 30, 31, 32, 133, 160, 12288}

\* \d on the characters the model's texts use
IsDigit(c) == c \in 48..57

RECURSIVE LStrip(_)
LStrip(s) ==
    IF s = <<>> THEN <<>>
    ELSE IF IsSpace(Head(s)) THEN LStrip(Tail(s)) ELSE s

RECURSIVE RStrip(_)
RStrip(s) ==
    IF s = <<>> THEN <<>>
    ELSE IF IsSpace(s[Len(s)]) THEN RStrip(SubSeq(s, 1, Len(s) - 1)) ELSE s

\* str.strip()
Strip(s) == RStrip(LStrip(s))

\* index of the first sep in s, 0 when there is none
FirstIndex(s, sep) ==
    IF \E i \in 1..Len(s) : s[i] = sep
    THEN CHOOSE i \in 1..Len(s) : s[i] = sep /\ \A j \in 1..(i - 1) : s[j] # sep
    ELSE 0

\* str.split(sep) for a one-character separator: never empty, "" gives [""]
RECURSIVE Split(_, _)
Split(s, sep) ==
    LET i == FirstIndex(s, sep) IN
    IF i = 0 THEN <<s>>
    ELSE <<SubSeq(s, 1, i - 1)>> \o Split(SubSeq(s, i + 1, Len(s)), sep)

\* sep.join(parts)
RECURSIVE Join(_, _)
Join(parts, sep) ==
    IF parts = <<>> THEN <<>>
    ELSE IF Len(parts) = 1 THEN parts[1]
    ELSE parts[1] \o <<sep>> \o Join(Tail(parts), sep)

\* s.startswith(p)
StartsWith(s, p) == Len(s) >= Len(p) /\ SubSeq(s, 1, Len(p)) = p

\* p in s
Contains(s, p) ==
    \E i \in 1..(Len(s) - Len(p) + 1) : SubSeq(s, i, i + Len(p) - 1) = p

\* str.lower() of one character and of a string
LowerChar(c) == IF c \in 65..90 THEN c + 32 ELSE c
Lower(s) == [i \in 1..Len(s) |-> LowerChar(s[i])]

\* lexicographic order of two strings by code point, the order of list.sort()
RECURSIVE StrLess(_, _)
StrLess(a, b) ==
    IF b = <<>> THEN FALSE
    ELSE IF a = <<>> THEN TRUE
    ELSE IF Head(a) # Head(b) THEN Head(a) < Head(b)
    ELSE StrLess(Tail(a), Tail(b))

(* ------------------------------------------------------------------ *)
(* chapter_patterns, each tried with re.match on the trimmed line      *)
(* ------------------------------------------------------------------ *)
\* ^第[一二三四五六七八九十百千万\d]+章
MatchChinese(line) ==
    /\ Len(line) >= 3
    /\ line[1] = CH_DI
    /\ \E k \in 3..Len(line) :
          /\ line[k] = CH_ZHANG
          /\ \A j \in 2..(k - 1) : line[j] \in ChineseNumerals \/ IsDigit(line[j])

\* ^Chapter\s*\d+
MatchChapter(line) ==
    /\ StartsWith(line, ChapterWord)
    /\ LET rest == LStrip(SubSeq(line, Len(ChapterWord) + 1, Len(line)))
       IN  rest # <<>> /\ IsDigit(Head(rest))

\* ^\d+\..*$
MatchNumbered(line) ==
    \E k \in 2..Len(line) :
        /\ line[k] = DOT
        /\ \A j \in 1..(k - 1) : IsDigit(line[j])
        /\ \A j \in (k + 1)..Len(line) : line[j] # NL

\* ^【.*】$
MatchBracket(line) ==
    /\ Len(line) >= 2
    /\ line[1] = CH_LBRACKET
    /\ line[Len(line)] = CH_RBRACKET
    /\ \A j \in 2..(Len(line) - 1) : line[j] # NL

\* the for loop over chapter_patterns: is_chapter_title
IsChapterTitle(line) ==
    MatchChinese(line) \/ MatchChapter(line) \/ MatchNumbered(line) \/ MatchBracket(line)

(* ------------------------------------------------------------------ *)
(* pathlib                                                             *)
(* ------------------------------------------------------------------ *)
\* name.rfind('.'): index of the last dot, 0 when there is none
RECURSIVE LastDot(_)
LastDot(name) ==
    IF name = <<>> THEN 0
    ELSE IF name[Len(name)] = DOT THEN Len(name)
    ELSE LastDot(SubSeq(name, 1, Len(name) - 1))

\* PurePath.suffix of a file name: empty for ".x" and for "x."
Suffix(name) ==
    LET i == LastDot(name) IN
    IF 1 < i /\ i < Len(name) THEN SubSeq(name, i, Len(name)) ELSE <<>>

\* PurePath.stem of a file name
Stem(name) ==
    LET i == LastDot(name) IN
    IF 1 < i /\ i < Len(name) THEN SubSeq(name, 1, i - 1) ELSE name

(* ------------------------------------------------------------------ *)
(* State                                                               *)
(* ------------------------------------------------------------------ *)
VARIABLES
    pc,               \* position of the generator in read_txt_file / add_images
    txt_path,         \* read_txt_file's argument, a file name
    raw,              \* the decoded text of the file
    book_title,       \* self.book_title
    content,          \* the text after the title line
    lines,            \* the lines the scanning loop has still to visit
    current_chapter,  \* the accumulator of the scanning loop
    chapter_title,    \* the title of the chapter being accumulated
    chapter_count,    \* the number of marker lines seen
    chapters,         \* self.chapters
    folder_exists,    \* os.path.exists(image_folder)
    listing,          \* os.listdir(image_folder), in the order the OS gives
    image_files,      \* the sorted supported names still to classify
    images,           \* self.images
    cover_image,      \* self.cover_image: <<>> for None, else <<image>>
    gens,             \* per conversion run: the generator's document
    gpc,              \* per conversion run: position in generate_epub
    dirs,             \* the directories of the scratch tree that exist
    files,            \* the files of the scratch tree and what they hold
    archive,          \* per conversion run: the entries of its output archive
    io_errors,        \* whether the file system may fail a call that could succeed
    txt_files,        \* the batch driver's list of text files
    idx,              \* the batch driver's position in txt_files
    bpc,              \* the batch driver's position in the loop body
    reports,          \* what the batch driver has printed per file
    calls             \* the core calls the batch driver has made

segVars == <<txt_path, raw, book_title, content, lines, current_chapter,
             chapter_title, chapter_count, chapters>>
imgVars == <<folder_exists, listing, image_files, images, cover_image>>
genVars == <<gens, gpc, dirs, files, archive, io_errors>>
batchVars == <<txt_files, idx, bpc, reports, calls>>
vars == <<pc, segVars, imgVars, genVars, batchVars>>

(* ------------------------------------------------------------------ *)
(* EpubGenerator.__init__ and read_txt_file                            *)
(* ------------------------------------------------------------------ *)
\* the attributes of a fresh generator and the locals before the loop
FreshSeg ==
    /\ book_title = DefaultTitle
    /\ chapters = <<>>
    /\ content = <<>>
    /\ lines = <<>>
    /\ current_chapter = <<>>
    /\ chapter_title = Preface
    /\ chapter_count = 0

FreshImg ==
    /\ images = <<>>
    /\ cover_image = <<>>
    /\ image_files = <<>>

\* lines 50-53: the title is the trimmed first line
TitleOfFirstLine(text) == Strip(Split(text, NL)[1])

\* lines 50-53: the text after the first line
ContentAfterTitle(text) == Join(Tail(Split(text, NL)), NL)

\* a fallback taken for an empty first line only
NeedsFallbackEmptyOnly(title) == title = <<>>

\* line 55: the condition of the fallback to the file name
NeedsFallback(title) == title = <<>> \/ title = DefaultTitle

\* lines 55-58: the title after the fallback
TitleFallback(title, path) ==
    IF NeedsFallback(title) /\ Stem(path) # <<>> THEN Stem(path) ELSE title

\* an append without the test for blank content
CloseChapterAlways(chs, title, acc) ==
    Append(chs, [title |-> title, content |-> Strip(acc)])

\* lines 85-89 and 97-101: append the accumulated chapter when it is not blank
CloseChapter(chs, title, acc) ==
    IF Strip(acc) # <<>>
    THEN Append(chs, [title |-> title, content |-> Strip(acc)])
    ELSE chs

\* a loop that starts the new chapter's content with the marker line itself
ScanLineKeepsMarker(st, rawline) ==
    LET line == Strip(rawline) IN
    IF line = <<>>
    THEN [st EXCEPT !.current_chapter = @ \o <<NL>>]
    ELSE IF IsChapterTitle(line)
    THEN [chapters |-> CloseChapter(st.chapters, st.chapter_title, st.current_chapter),
          chapter_title |-> line,
          current_chapter |-> line \o <<NL>>,
          chapter_count |-> st.chapter_count + 1]
    ELSE [st EXCEPT !.current_chapter = @ \o line \o <<NL>>]

\* lines 72-95: one iteration of the scanning loop on the loop's state
ScanLine(st, rawline) ==
    LET line == Strip(rawline) IN
    IF line = <<>>
    THEN [st EXCEPT !.current_chapter = @ \o <<NL>>]
    ELSE IF IsChapterTitle(line)
    THEN [chapters |-> CloseChapter(st.chapters, st.chapter_title, st.current_chapter),
          chapter_title |-> line,
          current_chapter |-> <<>>,
          chapter_count |-> st.chapter_count + 1]
    ELSE [st EXCEPT !.current_chapter = @ \o line \o <<NL>>]

\* lines 103-107: the synthetic chapter of a text in which no chapter was found
Synthesize(chs, title, text) ==
    IF chs = <<>>
    THEN <<[title |-> title, content |-> Strip(text)]>>
    ELSE chs

\* lines 97-107: the end of input
FinishChapters(st, title, text) ==
    Synthesize(CloseChapter(st.chapters, st.chapter_title, st.current_chapter),
               title, text)

ReadTitle ==
    /\ pc = "read"
    /\ book_title' = TitleFallback(TitleOfFirstLine(raw), txt_path)
    /\ content' = ContentAfterTitle(raw)
    /\ lines' = Split(ContentAfterTitle(raw), NL)
    /\ current_chapter' = <<>>
    /\ chapter_title' = Preface
    /\ chapter_count' = 0
    /\ pc' = "scan"
    /\ UNCHANGED <<txt_path, raw, chapters, imgVars, genVars, batchVars>>

ScanStep ==
    /\ pc = "scan"
    /\ lines # <<>>
    /\ LET st == ScanLine([chapters |-> chapters, chapter_title |-> chapter_title,
                           current_chapter |-> current_chapter,
                           chapter_count |-> chapter_count], Head(lines))
       IN  /\ chapters' = st.chapters
           /\ chapter_title' = st.chapter_title
           /\ current_chapter' = st.current_chapter
           /\ chapter_count' = st.chapter_count
    /\ lines' = Tail(lines)
    /\ UNCHANGED <<pc, txt_path, raw, book_title, content, imgVars, genVars, batchVars>>

FinishScan ==
    /\ pc = "scan"
    /\ lines = <<>>
    /\ chapters' = FinishChapters([chapters |-> chapters, chapter_title |-> chapter_title,
                                   current_chapter |-> current_chapter,
                                   chapter_count |-> chapter_count], book_title, content)
    /\ pc' = "done"
    /\ UNCHANGED <<txt_path, raw, book_title, content, lines, current_chapter,
                   chapter_title, chapter_count, imgVars, genVars, batchVars>>

\* read_txt_file as a function of the file name and the text
RECURSIVE ScanAll(_, _)
ScanAll(st, ls) == IF ls = <<>> THEN st ELSE ScanAll(ScanLine(st, Head(ls)), Tail(ls))

ReadTxtFile(path, text) ==
    LET title == TitleFallback(TitleOfFirstLine(text), path)
        body == ContentAfterTitle(text)
        st == ScanAll([chapters |-> <<>>, chapter_title |-> Preface,
                       current_chapter |-> <<>>, chapter_count |-> 0],
                      Split(body, NL))
    IN  [book_title |-> title, chapters |-> FinishChapters(st, title, body)]

(* ------------------------------------------------------------------ *)
(* add_images                                                          *)
(* ------------------------------------------------------------------ *)
\* line 121: Path(file).suffix.lower() in supported_formats
IsSupported(file) == Lower(Suffix(file)) \in supported_formats

\* line 130: 'cover' in img_file.lower() or '封面' in img_file.lower()
IsCoverName(file) ==
    Contains(Lower(file), CoverWord) \/ Contains(Lower(file), CoverWordZh)

\* list.sort() of file names: insertion into a sorted list
RECURSIVE InsertSorted(_, _)
InsertSorted(name, sorted) ==
    IF sorted = <<>> THEN <<name>>
    ELSE IF StrLess(Head(sorted), name)
         THEN <<Head(sorted)>> \o InsertSorted(name, Tail(sorted))
         ELSE <<name>> \o sorted

RECURSIVE SortAll(_, _)
SortAll(names, acc) ==
    IF names = <<>> THEN acc ELSE SortAll(Tail(names), InsertSorted(Head(names), acc))

\* a collector that keeps the order of os.listdir
SortNamesUnsorted(names) == names

\* line 124: image_files.sort()
SortNames(names) == SortAll(names, <<>>)

\* lines 118-124: the supported names of the folder, sorted
CollectImageFiles(entries) == SortNames(SelectSeq(entries, IsSupported))

\* line 128: img_id = f"img_{len(self.images) + 1}", kept as its number
NextImageId(imgs) == Len(imgs) + 1

\* lines 126-141: one iteration of the classification loop
ClassifyImage(st, file) ==
    IF IsCoverName(file)
    THEN [st EXCEPT !.cover_image = <<[id |-> 0, filename |-> file]>>]
    ELSE [st EXCEPT !.images = Append(@, [id |-> NextImageId(st.images), filename |-> file])]

\* lines 113-115: the folder does not exist, nothing is collected
FolderMissing ==
    /\ pc = "images"
    /\ ~folder_exists
    /\ pc' = "done"
    /\ UNCHANGED <<segVars, imgVars, genVars, batchVars>>

\* lines 117-124
ListImages ==
    /\ pc = "images"
    /\ folder_exists
    /\ image_files' = CollectImageFiles(listing)
    /\ pc' = "classify"
    /\ UNCHANGED <<segVars, folder_exists, listing, images, cover_image, genVars, batchVars>>

\* lines 126-141
ClassifyStep ==
    /\ pc = "classify"
    /\ image_files # <<>>
    /\ LET st == ClassifyImage([images |-> images, cover_image |-> cover_image],
                               Head(image_files))
       IN  images' = st.images /\ cover_image' = st.cover_image
    /\ image_files' = Tail(image_files)
    /\ UNCHANGED <<pc, segVars, folder_exists, listing, genVars, batchVars>>

\* lines 143-144
FinishImages ==
    /\ pc = "classify"
    /\ image_files = <<>>
    /\ pc' = "done"
    /\ UNCHANGED <<segVars, imgVars, genVars, batchVars>>

\* add_images on a fresh generator as a function of the folder's listing
RECURSIVE ClassifyAll(_, _)
ClassifyAll(st, fs) ==
    IF fs = <<>> THEN st ELSE ClassifyAll(ClassifyImage(st, Head(fs)), Tail(fs))

AddImages(entries) ==
    ClassifyAll([images |-> <<>>, cover_image |-> <<>>], CollectImageFiles(entries))

(* ------------------------------------------------------------------ *)
(* Inputs                                                              *)
(* ------------------------------------------------------------------ *)
\* sequences over S of length at most n
SeqsUpTo(S, n) == UNION { [1..k -> S] : k \in 0..n }

\* sequences over S of length at most n without repetition (a directory listing)
ListingsUpTo(S, n) ==
    { l \in SeqsUpTo(S, n) : \A i, j \in 1..Len(l) : i # j => l[i] # l[j] }

\* first lines: "", "T", " T ", "未命名小说", "1."
SegTitles == { <<>>, <<84>>, <<32, 84, 32>>, DefaultTitle, <<49, DOT>> }

\* later lines: "", " x ", "第1章", "Chapter 2", "3.x", "【x】", "x3."
SegLines ==
    { <<>>, <<32, 120, 32>>, <<CH_DI, 49, CH_ZHANG>>, ChapterWord \o <<32, 50>>,
      <<51, DOT, 120>>, <<CH_LBRACKET, 120, CH_RBRACKET>>, <<120, 51, DOT>> }

\* the texts of SpecSeg: a first line and at most MaxLines further lines
SegTexts ==
    { Join(<<t>> \o ls, NL) : t \in SegTitles, ls \in SeqsUpTo(SegLines, MaxLines) }

\* "b.txt"
SegPath == <<98, DOT, 116, 120, 116>>

\* "a.png", "z.png", "B.JPG", "cover.png", "Cover2.gif", "封面.jpg", "n.txt"
ImgNames ==
    { <<97, 46, 112, 110, 103>>, <<122, 46, 112, 110, 103>>, <<66, 46, 74, 80, 71>>,
      CoverWord \o <<46, 112, 110, 103>>,
      <<67, 111, 118, 101, 114, 50, 46, 103, 105, 102>>,
      CoverWordZh \o <<46, 106, 112, 103>>,
      <<110, 46, 116, 120, 116>> }

SegIdle == txt_path = <<>> /\ raw = <<>> /\ FreshSeg
ImgIdle == folder_exists = FALSE /\ listing = <<>> /\ FreshImg
GenIdle ==
    /\ gens = <<>> /\ gpc = <<>> /\ dirs = {} /\ files = <<>> /\ archive = <<>>
    /\ io_errors = FALSE
BatchIdle == txt_files = <<>> /\ idx = 0 /\ bpc = "idle" /\ reports = <<>> /\ calls = <<>>

(* ------------------------------------------------------------------ *)
(* SpecSeg: read_txt_file on a fresh generator                         *)
(* ------------------------------------------------------------------ *)
InitSeg ==
    /\ pc = "read"
    /\ txt_path = SegPath
    /\ raw \in SegTexts
    /\ FreshSeg
    /\ ImgIdle /\ GenIdle /\ BatchIdle

NextSeg == ReadTitle \/ ScanStep \/ FinishScan

SpecSeg == InitSeg /\ [][NextSeg]_vars

(* ------------------------------------------------------------------ *)
(* SpecImg: add_images on a fresh generator                            *)
(* ------------------------------------------------------------------ *)
InitImg ==
    /\ pc = "images"
    /\ folder_exists \in BOOLEAN
    /\ listing \in (IF folder_exists THEN ListingsUpTo(ImgNames, MaxListing) ELSE {<<>>})
    /\ FreshImg
    /\ SegIdle /\ GenIdle /\ BatchIdle

NextImg == FolderMissing \/ ListImages \/ ClassifyStep \/ FinishImages

SpecImg == InitImg /\ [][NextImg]_vars

(* ------------------------------------------------------------------ *)
(* _sanitize_title and _sanitize_content                               *)
(* ------------------------------------------------------------------ *)
\* "<div", "</div>", "<section", "</section>"
DivOpen == <<LT, 100, 105, 118>>
DivClose == <<LT, 47, 100, 105, 118, GT>>
SectionOpen == <<LT, 115, 101, 99, 116, 105, 111, 110>>
SectionClose == <<LT, 47, 115, 101, 99, 116, 105, 111, 110, GT>>

\* whether s holds a match of <[^>]+> : a tag
HasTag(s) ==
    \E i, j \in 1..Len(s) :
        /\ i + 1 < j
        /\ s[i] = LT
        /\ s[j] = GT
        /\ \A k \in (i + 1)..(j - 1) : s[k] # GT

\* re.sub(r'<[^>]+>', '', s): leftmost matches, left to right, not rescanned
RECURSIVE StripTags(_)
StripTags(s) ==
    IF s = <<>> THEN <<>>
    ELSE LET j == FirstIndex(s, GT) IN
         IF Head(s) = LT /\ j > 2
         THEN StripTags(SubSeq(s, j + 1, Len(s)))
         ELSE <<Head(s)>> \o StripTags(Tail(s))

\* lines 35-39
SanitizeTitle(title) == Strip(StripTags(title))

\* re.sub(r'<div(\s[^>]*)?>', r'<section\1>', s)
RECURSIVE SubDivOpen(_)
SubDivOpen(s) ==
    IF s = <<>> THEN <<>>
    ELSE LET j == FirstIndex(s, GT) IN
         IF /\ StartsWith(s, DivOpen)
            /\ j > Len(DivOpen)
            /\ (j = Len(DivOpen) + 1 \/ IsSpace(s[Len(DivOpen) + 1]))
         THEN SectionOpen \o SubSeq(s, Len(DivOpen) + 1, j)
                  \o SubDivOpen(SubSeq(s, j + 1, Len(s)))
         ELSE <<Head(s)>> \o SubDivOpen(Tail(s))

\* re.sub(r'</div>', '</section>', s)
RECURSIVE SubDivClose(_)
SubDivClose(s) ==
    IF s = <<>> THEN <<>>
    ELSE IF StartsWith(s, DivClose)
         THEN SectionClose \o SubDivClose(SubSeq(s, Len(DivClose) + 1, Len(s)))
         ELSE <<Head(s)>> \o SubDivClose(Tail(s))

\* lines 29-33
SanitizeContent(s) == SubDivClose(SubDivOpen(s))

(* ------------------------------------------------------------------ *)
(* The scratch tree and the parts written into it                      *)
(* ------------------------------------------------------------------ *)
\* line 156: temp_dir, and the directories lines 157-160 make below it
TempDir == "temp_epub"
MetaInfDir == "temp_epub/META-INF"
OebpsDir == "temp_epub/OEBPS"
ImagesDir == "temp_epub/OEBPS/images"

\* os.makedirs creates the directory and every missing ancestor
WithAncestors(d) ==
    IF d = TempDir THEN {TempDir}
    ELSE IF d = ImagesDir THEN {TempDir, OebpsDir, ImagesDir}
    ELSE {TempDir, d}

\* a file of the scratch tree: its directory and its name
PathOf(dir, kind, n, fname) == [dir |-> dir, kind |-> kind, n |-> n, fname |-> fname]
MimetypePath == PathOf(TempDir, "mimetype", 0, <<>>)
ContainerPath == PathOf(MetaInfDir, "container.xml", 0, <<>>)
OpfPath == PathOf(OebpsDir, "content.opf", 0, <<>>)
CoverPagePath == PathOf(OebpsDir, "cover.xhtml", 0, <<>>)
TocPath == PathOf(OebpsDir, "toc.ncx", 0, <<>>)
NavPath == PathOf(OebpsDir, "nav.xhtml", 0, <<>>)
ChapterPath(i) == PathOf(OebpsDir, "chapter", i, <<>>)
ImagePagePath(i) == PathOf(OebpsDir, "image_page", i, <<>>)
ImageFilePath(fname) == PathOf(ImagesDir, "image", 0, fname)

\* what a part holds: the document title as embedded, the manifest and spine
\* (package document only), and what the page shows (the chapter's title, the
\* image's file name)
Part(title, manifest, spine, shows) ==
    [title |-> title, manifest |-> manifest, spine |-> spine, shows |-> shows]

Item(kind, n) == [kind |-> kind, n |-> n]

\* lines 195-221: manifest_items
ManifestItems(doc) ==
    <<Item("cover", 0), Item("nav", 0)>>
    \o [i \in 1..Len(doc.images) |-> Item("image_page", i)]
    \o [i \in 1..Len(doc.chapters) |-> Item("chapter", i)]
    \o (IF doc.cover_image # <<>> THEN <<Item("cover_img", 0)>> ELSE <<>>)
    \o [i \in 1..Len(doc.images) |-> Item("img", doc.images[i].id)]
    \o <<Item("ncx", 0)>>

\* a spine that lists the chapters before the image pages
SpineChaptersFirst(doc) ==
    <<Item("cover", 0)>>
    \o [i \in 1..Len(doc.chapters) |-> Item("chapter", i)]
    \o [i \in 1..Len(doc.images) |-> Item("image_page", i)]

\* lines 192-209: spine_items
SpineItems(doc) ==
    <<Item("cover", 0)>>
    \o [i \in 1..Len(doc.images) |-> Item("image_page", i)]
    \o [i \in 1..Len(doc.chapters) |-> Item("chapter", i)]

\* line 223 and 228: the title the package document embeds
OpfTitle(doc) == SanitizeTitle(doc.book_title)

\* lines 251, 284 and 290: the title the cover page embeds
CoverPageTitle(doc) == SanitizeContent(doc.book_title)

\* line 318: the title the table of contents embeds
TocTitle(doc) == doc.book_title

\* line 340: the title the navigation document embeds
NavTitle(doc) == doc.book_title

\* lines 472 and 478: the title a chapter page embeds, on the first page only
ChapterPageTitle(doc, i) == IF i = 1 THEN SanitizeContent(doc.book_title) ELSE <<>>

\* a write of parts: the tree with each path of parts holding its part
WriteAll(tree, parts) ==
    [p \in DOMAIN tree \cup DOMAIN parts |->
        IF p \in DOMAIN parts THEN parts[p] ELSE tree[p]]

\* line 178: the declaration file holds the same text for every document
MimetypeParts == MimetypePath :> Part(<<>>, <<>>, <<>>, <<>>)
\* lines 181-188: the container file holds the same text for every document
ContainerParts == ContainerPath :> Part(<<>>, <<>>, <<>>, <<>>)
\* lines 225-293: the package document and the cover page
OpfParts(doc) ==
    (OpfPath :> Part(OpfTitle(doc), ManifestItems(doc), SpineItems(doc), <<>>))
    @@ (CoverPagePath :> Part(CoverPageTitle(doc), <<>>, <<>>, <<>>))
\* lines 309-326
TocParts(doc) == TocPath :> Part(TocTitle(doc), <<>>, <<>>, <<>>)
\* lines 336-354
NavParts(doc) == NavPath :> Part(NavTitle(doc), <<>>, <<>>, <<>>)
\* lines 401-481
ChapterParts(doc) ==
    [p \in { ChapterPath(i) : i \in 1..Len(doc.chapters) } |->
        Part(ChapterPageTitle(doc, p.n), <<>>, <<>>, doc.chapters[p.n].title)]
\* lines 358-397
ImagePageParts(doc) ==
    [p \in { ImagePagePath(i) : i \in 1..Len(doc.images) } |->
        Part(<<>>, <<>>, <<>>, doc.images[p.n].filename)]
\* lines 483-490: the cover and the ordinary images, copied under images/
CopiedImages(doc) ==
    [p \in { ImageFilePath(doc.images[i].filename) : i \in 1..Len(doc.images) }
           \cup { ImageFilePath(doc.cover_image[i].filename) : i \in 1..Len(doc.cover_image) }
        |-> Part(<<>>, <<>>, <<>>, p.fname)]

\* every part and asset of a document
AllParts(doc) ==
    MimetypeParts @@ ContainerParts @@ OpfParts(doc) @@ TocParts(doc) @@ NavParts(doc)
    @@ ChapterParts(doc) @@ ImagePageParts(doc) @@ CopiedImages(doc)

(* ------------------------------------------------------------------ *)
(* generate_epub, one action per step, for conversion run r            *)
(* ------------------------------------------------------------------ *)
genRest == <<pc, segVars, imgVars, batchVars, gens, io_errors>>

Goto(r, label) == gpc' = [gpc EXCEPT ![r] = label]

\* os.makedirs(d, exist_ok=True) at position here, outside the try block:
\* when it raises, the exception leaves generate_epub at once
Makedirs(r, here, d, next) ==
    /\ gpc[r] = here
    /\ \/ /\ dirs' = dirs \cup WithAncestors(d)
          /\ Goto(r, next)
       \/ /\ io_errors
          /\ dirs' = dirs
          /\ Goto(r, "raised")
    /\ UNCHANGED <<files, archive, genRest>>

\* line 157
MkTemp(r) == Makedirs(r, "mk_temp", TempDir, "mk_meta")
\* line 158
MkMetaInf(r) == Makedirs(r, "mk_meta", MetaInfDir, "mk_oebps")
\* line 159
MkOebps(r) == Makedirs(r, "mk_oebps", OebpsDir, "mk_images")
\* line 160
MkImages(r) == Makedirs(r, "mk_images", ImagesDir, "mimetype")

\* a step of the try block that writes parts: open(..., 'w') raises when the
\* directory is gone, and the exception runs the finally clause
WriteStep(r, here, parts, next) ==
    /\ gpc[r] = here
    /\ \/ /\ \A p \in DOMAIN parts : p.dir \in dirs
          /\ files' = WriteAll(files, parts)
          /\ Goto(r, next)
       \/ /\ io_errors \/ \E p \in DOMAIN parts : p.dir \notin dirs
          /\ files' = files
          /\ Goto(r, "cleanup_exc")
    /\ UNCHANGED <<dirs, archive, genRest>>

\* line 163
CreateMimetype(r) == WriteStep(r, "mimetype", MimetypeParts, "container")
\* line 164
CreateContainerXml(r) == WriteStep(r, "container", ContainerParts, "opf")
\* line 165
CreateContentOpf(r) == WriteStep(r, "opf", OpfParts(gens[r]), "toc")
\* line 166
CreateTocNcx(r) == WriteStep(r, "toc", TocParts(gens[r]), "nav")
\* line 167
CreateNavXhtml(r) == WriteStep(r, "nav", NavParts(gens[r]), "chapters")
\* line 168
CreateChaptersHtml(r) == WriteStep(r, "chapters", ChapterParts(gens[r]), "image_pages")
\* line 169
CreateImagePages(r) == WriteStep(r, "image_pages", ImagePageParts(gens[r]), "copy")
\* line 170
CopyImages(r) == WriteStep(r, "copy", CopiedImages(gens[r]), "zip_open")

\* an entry of the archive
Entry(p, compress, part) == [path |-> p, compress |-> compress, part |-> part]

\* line 494: compress_type of the declaration entry
MimetypeCompression == "STORED"
\* line 493: the archive's default, used by line 502
DefaultCompression == "DEFLATED"

\* a walk that skips nothing: the declaration file is archived a second time
WalkSkipsNothing(p) == FALSE

\* lines 498-499: the walk skips every file named 'mimetype'
WalkSkips(p) == p.kind = "mimetype"

\* the files of one directory in some order
RECURSIVE SeqOfSet(_)
SeqOfSet(S) ==
    IF S = {} THEN <<>>
    ELSE LET x == CHOOSE y \in S : TRUE IN <<x>> \o SeqOfSet(S \ {x})

Reverse(q) == [i \in 1..Len(q) |-> q[Len(q) + 1 - i]]
Rotate(q, k) == SubSeq(q, k + 1, Len(q)) \o SubSeq(q, 1, k)

\* os.listdir gives a directory's files in an order of the OS's choosing: the
\* model draws it from the rotations of one order and their reversals
ListingOrders(tree, d) ==
    LET q == SeqOfSet({ p \in DOMAIN tree : p.dir = d })
    IN  { Rotate(q, k) : k \in 0..(IF q = <<>> THEN 0 ELSE Len(q) - 1) }
        \cup { Reverse(Rotate(q, k)) : k \in 0..(IF q = <<>> THEN 0 ELSE Len(q) - 1) }

\* os.walk(temp_dir), top down: the root's files, then META-INF and OEBPS in
\* either order, the files of OEBPS before those of OEBPS/images
WalkOrders(tree) ==
    { root \o (IF metaFirst THEN meta \o oebps \o imgs ELSE oebps \o imgs \o meta) :
        root \in ListingOrders(tree, TempDir), meta \in ListingOrders(tree, MetaInfDir),
        oebps \in ListingOrders(tree, OebpsDir), imgs \in ListingOrders(tree, ImagesDir),
        metaFirst \in BOOLEAN }

\* lines 496-502: the entries the walk adds
WalkEntries(tree, order) ==
    LET kept == SelectSeq(order, LAMBDA p : ~WalkSkips(p))
    IN  [i \in 1..Len(kept) |-> Entry(kept[i], DefaultCompression, tree[kept[i]])]

\* lines 493-494: open the archive and write the declaration entry
ZipMimetype(r) ==
    /\ gpc[r] = "zip_open"
    /\ \/ /\ MimetypePath \in DOMAIN files
          /\ archive' = [archive EXCEPT
                ![r] = <<Entry(MimetypePath, MimetypeCompression, files[MimetypePath])>>]
          /\ Goto(r, "zip_walk")
       \/ /\ io_errors \/ MimetypePath \notin DOMAIN files
          /\ archive' = archive
          /\ Goto(r, "cleanup_exc")
    /\ UNCHANGED <<dirs, files, genRest>>

\* lines 496-502 and line 172
ZipWalk(r) ==
    /\ gpc[r] = "zip_walk"
    /\ \/ /\ \E order \in WalkOrders(files) :
                archive' = [archive EXCEPT ![r] = @ \o WalkEntries(files, order)]
          /\ Goto(r, "cleanup_ok")
       \/ /\ io_errors
          /\ archive' = archive
          /\ Goto(r, "cleanup_exc")
    /\ UNCHANGED <<dirs, files, genRest>>

\* lines 504-507: _cleanup_temp
CleanupTemp(tree_dirs, tree) ==
    IF TempDir \in tree_dirs THEN [dirs |-> {}, files |-> <<>>]
    ELSE [dirs |-> tree_dirs, files |-> tree]

\* lines 173-174: the finally clause, then the return or the pending exception
Cleanup(r) ==
    /\ gpc[r] \in {"cleanup_ok", "cleanup_exc"}
    /\ dirs' = CleanupTemp(dirs, files).dirs
    /\ files' = CleanupTemp(dirs, files).files
    /\ Goto(r, IF gpc[r] = "cleanup_ok" THEN "returned" ELSE "raised")
    /\ UNCHANGED <<archive, genRest>>

(* ------------------------------------------------------------------ *)
(* SpecGen: one conversion; SpecConc: two conversions interleaved      *)
(* ------------------------------------------------------------------ *)
\* the document read_txt_file and add_images leave in a fresh generator
Document(path, text, entries) ==
    [book_title |-> ReadTxtFile(path, text).book_title,
     chapters |-> ReadTxtFile(path, text).chapters,
     images |-> AddImages(entries).images,
     cover_image |-> AddImages(entries).cover_image]

\* "T", "<b>T</b>", "<div>T</div>"
PlainTitle == <<84>>
TaggedTitle == <<LT, 98, GT, 84, LT, 47, 98, GT>>
DivTitle == DivOpen \o <<GT, 84>> \o DivClose

\* texts of one, two and three chapters
OneChapterLines == << <<32, 120, 32>> >>
TwoChapterLines == << <<120>>, <<51, DOT, 120>>, <<121>> >>
ThreeChapterLines ==
    << <<120>>, <<CH_DI, 49, CH_ZHANG>>, <<121>>, <<>>, ChapterWord \o <<32, 50>>, <<122>> >>

GenTexts ==
    { Join(<<t>> \o ls, NL) :
        t \in {PlainTitle, TaggedTitle, DivTitle},
        ls \in {OneChapterLines, TwoChapterLines, ThreeChapterLines} }

\* folders: none, "a.png" alone, and "z.png", "cover.png", "a.png"
GenListings ==
    { <<>>,
      << <<97, 46, 112, 110, 103>> >>,
      << <<122, 46, 112, 110, 103>>, CoverWord \o <<46, 112, 110, 103>>,
         <<97, 46, 112, 110, 103>> >> }

GenDocuments == { Document(SegPath, t, l) : t \in GenTexts, l \in GenListings }

InitGen ==
    /\ gens \in [{1} -> GenDocuments]
    /\ gpc = [r \in {1} |-> "mk_temp"]
    /\ archive = [r \in {1} |-> <<>>]
    /\ dirs = {}
    /\ files = <<>>
    /\ io_errors = TRUE
    /\ pc = "generate"
    /\ SegIdle /\ ImgIdle /\ BatchIdle

NextGen ==
    \/ \E r \in DOMAIN gpc : MkTemp(r)
    \/ \E r \in DOMAIN gpc : MkMetaInf(r)
    \/ \E r \in DOMAIN gpc : MkOebps(r)
    \/ \E r \in DOMAIN gpc : MkImages(r)
    \/ \E r \in DOMAIN gpc : CreateMimetype(r)
    \/ \E r \in DOMAIN gpc : CreateContainerXml(r)
    \/ \E r \in DOMAIN gpc : CreateContentOpf(r)
    \/ \E r \in DOMAIN gpc : CreateTocNcx(r)
    \/ \E r \in DOMAIN gpc : CreateNavXhtml(r)
    \/ \E r \in DOMAIN gpc : CreateChaptersHtml(r)
    \/ \E r \in DOMAIN gpc : CreateImagePages(r)
    \/ \E r \in DOMAIN gpc : CopyImages(r)
    \/ \E r \in DOMAIN gpc : ZipMimetype(r)
    \/ \E r \in DOMAIN gpc : ZipWalk(r)
    \/ \E r \in DOMAIN gpc : Cleanup(r)

SpecGen == InitGen /\ [][NextGen]_vars

\* two documents that differ in title and chapters
ConcDocuments ==
    << Document(SegPath, Join(<<PlainTitle>> \o OneChapterLines, NL), <<>>),
       Document(SegPath, Join(<<TaggedTitle>> \o TwoChapterLines, NL), <<>>) >>

InitConc ==
    /\ gens = ConcDocuments
    /\ gpc = [r \in {1, 2} |-> "mk_temp"]
    /\ archive = [r \in {1, 2} |-> <<>>]
    /\ dirs = {}
    /\ files = <<>>
    /\ io_errors = FALSE
    /\ pc = "generate"
    /\ SegIdle /\ ImgIdle /\ BatchIdle

NextConc ==
    \/ \E r \in DOMAIN gpc : MkTemp(r)
    \/ \E r \in DOMAIN gpc : MkMetaInf(r)
    \/ \E r \in DOMAIN gpc : MkOebps(r)
    \/ \E r \in DOMAIN gpc : MkImages(r)
    \/ \E r \in DOMAIN gpc : CreateMimetype(r)
    \/ \E r \in DOMAIN gpc : CreateContainerXml(r)
    \/ \E r \in DOMAIN gpc : CreateContentOpf(r)
    \/ \E r \in DOMAIN gpc : CreateTocNcx(r)
    \/ \E r \in DOMAIN gpc : CreateNavXhtml(r)
    \/ \E r \in DOMAIN gpc : CreateChaptersHtml(r)
    \/ \E r \in DOMAIN gpc : CreateImagePages(r)
    \/ \E r \in DOMAIN gpc : CopyImages(r)
    \/ \E r \in DOMAIN gpc : ZipMimetype(r)
    \/ \E r \in DOMAIN gpc : ZipWalk(r)
    \/ \E r \in DOMAIN gpc : Cleanup(r)

SpecConc == InitConc /\ [][NextConc]_vars

(* ------------------------------------------------------------------ *)
(* process_all_txt_files                                               *)
(* ------------------------------------------------------------------ *)
\* ".txt" and ".epub"
TxtSuffix == <<DOT, 116, 120, 116>>
EpubSuffix == <<DOT, 101, 112, 117, 98>>

\* s.endswith(p)
EndsWith(s, p) == Len(s) >= Len(p) /\ SubSeq(s, Len(s) - Len(p) + 1, Len(s)) = p

\* line 512: the names of the working directory that end in .txt
TxtFilesOf(entries) == SelectSeq(entries, LAMBDA f : EndsWith(Lower(f), TxtSuffix))

\* os.path.splitext(name)[0]
SplitextRoot(name) ==
    LET i == LastDot(name) IN
    IF i > 1 THEN SubSeq(name, 1, i - 1) ELSE name

\* line 542
EpubFileOf(txt_file) == SplitextRoot(txt_file) \o EpubSuffix

\* a call of the core and how it ended
Call(file, name, outcome) == [file |-> file, name |-> name, outcome |-> outcome]
\* a line the driver prints about a file
Report(file, kind, output) == [file |-> file, kind |-> kind, output |-> output]

\* the for statement of line 524: the next file, or the end of the loop
NextFile ==
    IF idx < Len(txt_files)
    THEN idx' = idx + 1 /\ bpc' = "read"
    ELSE idx' = idx /\ bpc' = "done"

batchRest == <<pc, segVars, imgVars, genVars>>

\* lines 512-516: no text file, the driver returns
BatchNoFiles ==
    /\ bpc = "start"
    /\ txt_files = <<>>
    /\ bpc' = "done"
    /\ UNCHANGED <<txt_files, idx, reports, calls, batchRest>>

\* lines 518-524: the files are listed and the loop is entered
BatchBegin ==
    /\ bpc = "start"
    /\ txt_files # <<>>
    /\ idx' = 1
    /\ bpc' = "read"
    /\ UNCHANGED <<txt_files, reports, calls, batchRest>>

\* a call of the core made inside the try block: it returns, or raises an
\* Exception that line 546 catches
CoreCall(here, name, next) ==
    /\ bpc = here
    /\ \E outcome \in {"returned", "raised"} :
          /\ calls' = Append(calls, Call(txt_files[idx], name, outcome))
          /\ bpc' = IF outcome = "returned" THEN next ELSE "except"
    /\ UNCHANGED <<txt_files, idx, reports, batchRest>>

\* lines 528-529
BatchRead == CoreCall("read", "read_txt_file", "folder")

\* lines 531-532: the image folder does not exist
BatchNoFolder ==
    /\ bpc = "folder"
    /\ bpc' = "generate"
    /\ UNCHANGED <<txt_files, idx, reports, calls, batchRest>>

\* lines 531-534: the image folder exists
BatchAddImages == CoreCall("folder", "add_images", "generate")

\* lines 536-543
BatchGenerate == CoreCall("generate", "generate_epub", "success")

\* line 544, then the next file
BatchSuccess ==
    /\ bpc = "success"
    /\ reports' = Append(reports, Report(txt_files[idx], "success", EpubFileOf(txt_files[idx])))
    /\ NextFile
    /\ UNCHANGED <<txt_files, calls, batchRest>>

\* a handler that reports the failure and ends the loop
BatchExceptAborts ==
    /\ bpc = "except"
    /\ reports' = Append(reports, Report(txt_files[idx], "error", <<>>))
    /\ bpc' = "aborted"
    /\ UNCHANGED <<txt_files, idx, calls, batchRest>>

\* lines 546-549, then the next file
BatchExcept ==
    /\ bpc = "except"
    /\ reports' = Append(reports, Report(txt_files[idx], "error", <<>>))
    /\ NextFile
    /\ UNCHANGED <<txt_files, calls, batchRest>>

\* "a.txt", "B.TXT", "c.epub", "d.txt"
BatchNames ==
    { <<97>> \o TxtSuffix, <<66, DOT, 84, 88, 84>>, <<99>> \o EpubSuffix, <<100>> \o TxtSuffix }

InitBatch ==
    /\ txt_files \in { TxtFilesOf(l) : l \in ListingsUpTo(BatchNames, MaxTxt) }
    /\ idx = 0
    /\ bpc = "start"
    /\ reports = <<>>
    /\ calls = <<>>
    /\ pc = "batch"
    /\ SegIdle /\ ImgIdle /\ GenIdle

NextBatch ==
    \/ BatchNoFiles \/ BatchBegin \/ BatchRead \/ BatchNoFolder \/ BatchAddImages
    \/ BatchGenerate \/ BatchSuccess \/ BatchExcept

\* the driver is one sequential loop: a step that can be taken is taken
SpecBatch == InitBatch /\ [][NextBatch]_vars /\ WF_vars(NextBatch)

(* ------------------------------------------------------------------ *)
(* Properties of read_txt_file (SpecSeg)                               *)
(* ------------------------------------------------------------------ *)
\* the lines of the text after the title line
BodyLines == Split(ContentAfterTitle(raw), NL)
\* the positions of the marker lines among them
MarkerPositions == { i \in 1..Len(BodyLines) : IsChapterTitle(Strip(BodyLines[i])) }
\* whether some line after the title is neither blank nor a marker
HasBodyText ==
    \E i \in 1..Len(BodyLines) :
        Strip(BodyLines[i]) # <<>> /\ ~IsChapterTitle(Strip(BodyLines[i]))
IsBlank(s) == Strip(s) = <<>>
\* whether a chapter's content holds a line that is a chapter marker
HoldsMarker(ch) ==
    \E l \in { Split(ch.content, NL)[i] : i \in 1..Len(Split(ch.content, NL)) } :
        IsChapterTitle(Strip(l))

\* C3: after read_txt_file the chapter list is never empty; every chapter the
\* scanning loop or the end of input appends has non-blank content; a chapter
\* with blank content is the single synthetic chapter of a text in which no
\* chapter was found.
C3_ChaptersNonEmpty ==
    /\ pc = "scan" => \A i \in 1..Len(chapters) : ~IsBlank(chapters[i].content)
    /\ pc = "done" =>
          /\ chapters # <<>>
          /\ \A i \in 1..Len(chapters) :
                IsBlank(chapters[i].content) =>
                    /\ Len(chapters) = 1
                    /\ ~HasBodyText
                    /\ IsBlank(current_chapter)
                    /\ chapters[1].title = book_title

\* C3 witness: a text whose lines after the title are all blank has been read
\* and yields the one synthetic chapter with blank content.
C3_Witness ==
    /\ pc = "done"
    /\ Len(BodyLines) >= 2
    /\ Len(chapters) = 1
    /\ IsBlank(chapters[1].content)

\* C4 as claimed: every marker line after the title line is detected as a
\* chapter start, and no chapter's content holds a marker line.
C4_MarkerExcludedEverywhere ==
    pc = "done" =>
        /\ chapter_count = Cardinality(MarkerPositions)
        /\ \A i \in 1..Len(chapters) : ~HoldsMarker(chapters[i])

\* C4 amended: every marker line after the title line is detected as a chapter
\* start; when some line after the title is neither blank nor a marker, no
\* chapter's content holds a marker line; when there is none, the one synthetic
\* chapter holds the whole text after the title line, marker lines included.
C4_MarkerExcludedUnlessSynthetic ==
    pc = "done" =>
        /\ chapter_count = Cardinality(MarkerPositions)
        /\ HasBodyText => \A i \in 1..Len(chapters) : ~HoldsMarker(chapters[i])
        /\ ~HasBodyText =>
              chapters = <<[title |-> book_title,
                            content |-> Strip(ContentAfterTitle(raw))]>>

\* C4 witness: a text with a preface, a marker and text under it has been
\* read.
C4_Witness ==
    /\ pc = "done"
    /\ Cardinality(MarkerPositions) >= 1
    /\ HasBodyText
    /\ Len(chapters) >= 2

\* the first line of the raw text
FirstLine == Split(raw, NL)[1]

SupportedNames == { listing[i] : i \in { j \in 1..Len(listing) : IsSupported(listing[j]) } }
CoverNames == { f \in SupportedNames : IsCoverName(f) }

\* C6: after add_images the cover is the last cover-named file in sorted order
\* (none when there is none), the ordinary images are exactly the supported
\* names that are not cover-named, in increasing order of file name, and the
\* identifier of each is its 1-based position.
C6_CoverAndOrder ==
    pc = "done" /\ folder_exists =>
        /\ Len(cover_image) <= 1
        /\ (cover_image = <<>>) = (CoverNames = {})
        /\ cover_image # <<>> =>
              /\ cover_image[1].filename \in CoverNames
              /\ \A f \in CoverNames :
                    f = cover_image[1].filename \/ StrLess(f, cover_image[1].filename)
        /\ { images[i].filename : i \in 1..Len(images) } = SupportedNames \ CoverNames
        /\ \A i, j \in 1..Len(images) :
              i < j => StrLess(images[i].filename, images[j].filename)
        /\ \A i \in 1..Len(images) : images[i].id = i

\* C6 witness: a folder with two cover-named files and two ordinary images,
\* listed out of order, has been collected.
C6_Witness ==
    /\ pc = "done"
    /\ Cardinality(CoverNames) >= 2
    /\ Len(images) >= 1
    /\ \E i, j \in 1..Len(listing) :
          /\ i < j
          /\ ~IsCoverName(listing[i]) /\ ~IsCoverName(listing[j])
          /\ StrLess(listing[j], listing[i])

(* ------------------------------------------------------------------ *)
(* Properties of generate_epub (SpecGen)                               *)
(* ------------------------------------------------------------------ *)
Exited(r) == gpc[r] \in {"returned", "raised"}

\* C1 as claimed: whenever generate_epub has exited, by return or by an
\* exception raised at any step after the scratch directory was created, the
\* scratch directory does not exist.
C1_ScratchRemovedOnEveryExit ==
    \A r \in DOMAIN gpc : Exited(r) => TempDir \notin dirs

\* C2: the declaration entry is the first entry of every archive, is stored
\* uncompressed and appears once; every other entry is deflated.
C2_MimetypeFirstStored ==
    \A r \in DOMAIN archive :
        archive[r] # <<>> =>
            /\ archive[r][1].path = MimetypePath
            /\ archive[r][1].compress = "STORED"
            /\ \A i \in 2..Len(archive[r]) :
                  /\ archive[r][i].path.kind # "mimetype"
                  /\ archive[r][i].compress = "DEFLATED"
            /\ gpc[r] = "returned" =>
                  { archive[r][i].path : i \in 1..Len(archive[r]) } = DOMAIN AllParts(gens[r])

\* C2 witness: the archive of a document with three chapters, two images and
\* a cover has been written.
C2_Witness ==
    /\ gpc[1] = "returned"
    /\ Len(gens[1].chapters) = 3
    /\ Len(gens[1].images) = 2
    /\ gens[1].cover_image # <<>>
    /\ Len(archive[1]) = 14

\* C5: the spine of the package document has 1 + n + m entries: the cover
\* page, then image pages 1..n, then chapters 1..m, none repeated; and in the
\* archive image page i shows the i-th ordinary image and chapter page j the
\* j-th chapter.
C5_SpineOrder ==
    /\ OpfPath \in DOMAIN files =>
          LET sp == files[OpfPath].spine
              n == Len(gens[1].images)
              m == Len(gens[1].chapters)
          IN  /\ Len(sp) = 1 + n + m
              /\ sp[1] = Item("cover", 0)
              /\ \A i \in 1..n : sp[1 + i] = Item("image_page", i)
              /\ \A j \in 1..m : sp[1 + n + j] = Item("chapter", j)
              /\ \A a, b \in 1..Len(sp) : a # b => sp[a] # sp[b]
    /\ \A k \in 1..Len(archive[1]) :
          LET e == archive[1][k] IN
          /\ e.path.kind = "image_page" => e.part.shows = gens[1].images[e.path.n].filename
          /\ e.path.kind = "chapter" => e.part.shows = gens[1].chapters[e.path.n].title

\* C5 witness: the package document of a document with two ordinary images
\* and three chapters has been written and archived.
C5_Witness ==
    /\ gpc[1] = "returned"
    /\ Len(gens[1].images) = 2
    /\ Len(gens[1].chapters) = 3
    /\ \E k \in 1..Len(archive[1]) :
          archive[1][k].path = OpfPath /\ Len(archive[1][k].part.spine) = 6

\* C9 as claimed: no part written embeds a title that holds a tag.
C9_NoTagFromTitle ==
    \A p \in DOMAIN files : ~HasTag(files[p].title)

(* ------------------------------------------------------------------ *)
(* Properties of two interleaved conversions (SpecConc)                *)
(* ------------------------------------------------------------------ *)
\* C8 as claimed: a run whose parts are all written and not yet packaged finds
\* each of them in the scratch tree as it wrote it, and the archive of a run
\* that returned holds exactly the parts and assets of its own document.
C8_RunsIsolated ==
    \A r \in DOMAIN gpc :
        /\ gpc[r] \in {"zip_open", "zip_walk"} =>
              \A p \in DOMAIN AllParts(gens[r]) :
                  p \in DOMAIN files /\ files[p] = AllParts(gens[r])[p]
        /\ gpc[r] = "returned" =>
              /\ { archive[r][i].path : i \in 1..Len(archive[r]) } = DOMAIN AllParts(gens[r])
              /\ \A i \in 1..Len(archive[r]) :
                    archive[r][i].part = AllParts(gens[r])[archive[r][i].path]

(* ------------------------------------------------------------------ *)
(* Properties of process_all_txt_files (SpecBatch)                     *)
(* ------------------------------------------------------------------ *)
CallsOf(file, name) ==
    { i \in 1..Len(calls) : calls[i].file = file /\ calls[i].name = name }
Failed(file) == \E i \in 1..Len(calls) : calls[i].file = file /\ calls[i].outcome = "raised"
Generated(file) ==
    \E i \in 1..Len(calls) :
        calls[i] = Call(file, "generate_epub", "returned")

\* the files the loop is done with, in order
Finished == IF bpc = "done" THEN Len(txt_files)
            ELSE IF idx = 0 THEN 0 ELSE idx - 1

C7_Safety ==
    /\ Len(reports) = Finished
    /\ \A i \in 1..Len(reports) :
          /\ reports[i].file = txt_files[i]
          /\ Cardinality(CallsOf(txt_files[i], "read_txt_file")) = 1
          /\ Cardinality(CallsOf(txt_files[i], "generate_epub")) <= 1
          /\ reports[i].kind = "success" <=> Generated(txt_files[i])
          /\ reports[i].kind = "error" <=> Failed(txt_files[i])
    /\ \A i \in 1..Len(calls) :
          \E j \in 1..Len(txt_files) : j <= idx /\ calls[i].file = txt_files[j]

\* C7: every text file is attempted once; a failure of read_txt_file,
\* add_images or generate_epub is caught and reported for that file; success is
\* reported only when generate_epub returned; the batch reaches its end
\* whatever subset of the files fails.
C7_BatchCompletes == [](C7_Safety) /\ <>(bpc = "done")

\* C7 witness: a batch of three files is over, the first failed in
\* generate_epub, the second in read_txt_file, the third succeeded.
C7_Witness ==
    /\ bpc = "done"
    /\ Len(txt_files) = 3
    /\ Len(reports) = 3
    /\ reports[1].kind = "error" /\ reports[2].kind = "error" /\ reports[3].kind = "success"
    /\ \E i \in 1..Len(calls) : calls[i] = Call(txt_files[1], "generate_epub", "raised")
    /\ \E i \in 1..Len(calls) : calls[i] = Call(txt_files[2], "read_txt_file", "raised")

====
